---- MODULE Spec2Model ----
(***************************************************************************)
(* Model of src/src/services/parser/xml-parser.ts (class XmlParser).       *)
(*                                                                         *)
(* A JavaScript string is a sequence of symbols.  A symbol is either one   *)
(* character, Chr(c), or a whole tag, Open(name) for the characters        *)
(* "<name>" and Close(name) for "</name>".  The characters "<" and ">"     *)
(* occur only inside tag symbols, and a tag name is a non-empty string of  *)
(* ordinary characters, so the regular expressions of the parser, which    *)
(* look for "<", a name without ">", and ">", match exactly at the tag     *)
(* symbols.                                                                *)
(*                                                                         *)
(* A JavaScript value is a record tagged by its field "type":              *)
(*   String (s), Boolean (b), Number (neg, mant, exp, inf, nan), Null,     *)
(*   Undefined, Array (items), Object (map: own keys -> values).           *)
(***************************************************************************)
EXTENDS Integers, Sequences, FiniteSets, TLC

VARIABLES pc, text, pos, match, requests, warnings, blocks, thrown, call

vars == <<pc, text, pos, match, requests, warnings, blocks, thrown, call>>

----------------------------------------------------------------------------
(* Strings *)

Chr(c) == [k |-> "c", c |-> c]
Open(name) == [k |-> "o", tag |-> name]
Close(name) == [k |-> "x", tag |-> name]

\* The string whose characters are the one-character strings of cs.
S(cs) == [i \in 1..Len(cs) |-> Chr(cs[i])]

IsChr(y) == y.k = "c"
AllChr(s) == \A i \in 1..Len(s) : IsChr(s[i])

LowerAlpha ==
  <<"a","b","c","d","e","f","g","h","i","j","k","l","m",
    "n","o","p","q","r","s","t","u","v","w","x","y","z">>
UpperAlpha ==
  <<"A","B","C","D","E","F","G","H","I","J","K","L","M",
    "N","O","P","Q","R","S","T","U","V","W","X","Y","Z">>
DigitChars == <<"0","1","2","3","4","5","6","7","8","9">>

LowerLetters == {LowerAlpha[i] : i \in 1..Len(LowerAlpha)}
Digits == {DigitChars[i] : i \in 1..Len(DigitChars)}

\* String.prototype.trim and StringToNumber strip the same white space.
WhiteSpace == {" ", "\t", "\n", "\r"}
IsWs(y) == IsChr(y) /\ y.c \in WhiteSpace

trim(s) ==
  LET keep == {i \in 1..Len(s) : ~IsWs(s[i])}
  IN  IF keep = {} THEN <<>>
      ELSE LET lo == CHOOSE i \in keep : \A j \in keep : i <= j
               hi == CHOOSE i \in keep : \A j \in keep : j <= i
           IN  SubSeq(s, lo, hi)

LowerChar(c) ==
  IF \E i \in 1..Len(UpperAlpha) : UpperAlpha[i] = c
  THEN LowerAlpha[CHOOSE i \in 1..Len(UpperAlpha) : UpperAlpha[i] = c]
  ELSE c

toLowerCase(s) ==
  [i \in 1..Len(s) |-> IF IsChr(s[i]) THEN Chr(LowerChar(s[i].c)) ELSE s[i]]

startsWith(s, c) == Len(s) >= 1 /\ s[1] = Chr(c)
endsWith(s, c) == Len(s) >= 1 /\ s[Len(s)] = Chr(c)

----------------------------------------------------------------------------
(* Values *)

String(s) == [type |-> "String", s |-> s]
Boolean(b) == [type |-> "Boolean", b |-> b]
Null == [type |-> "Null"]
Undefined == [type |-> "Undefined"]
Array(items) == [type |-> "Array", items |-> items]
Object(map) == [type |-> "Object", map |-> map]

EmptyMap == [key \in {} |-> Null]

\* obj[key] = value on a plain object
Put(map, key, value) ==
  [x \in (DOMAIN map) \cup {key} |-> IF x = key THEN value ELSE map[x]]

\* obj.key on a plain object whose prototype chain holds no such key
Get(v, key) ==
  IF v.type = "Object" /\ key \in DOMAIN v.map THEN v.map[key] ELSE Undefined

----------------------------------------------------------------------------
(* Numbers: a finite Number is (-1)^neg * mant * 10^exp with mant free of   *)
(* trailing zeros.  A decimal literal of at most 15 significant digits      *)
(* denotes one double, and Number.prototype.toString prints these digits    *)
(* back, so the pair (mant, exp) identifies the double.                     *)

Min(set) == CHOOSE x \in set : \A y \in set : x <= y

RECURSIVE Pow10(_)
Pow10(n) == IF n <= 0 THEN 1 ELSE 10 * Pow10(n - 1)

RECURSIVE NumDigits(_)
NumDigits(m) == IF m < 10 THEN 1 ELSE 1 + NumDigits(m \div 10)

RECURSIVE StripZeros(_, _)
StripZeros(mant, exp) ==
  IF mant = 0 THEN [mant |-> 0, exp |-> 0]
  ELSE IF mant % 10 = 0 THEN StripZeros(mant \div 10, exp + 1)
  ELSE [mant |-> mant, exp |-> exp]

NaN == [type |-> "Number", neg |-> FALSE, mant |-> 0, exp |-> 0,
        inf |-> FALSE, nan |-> TRUE]
Infinity(neg) == [type |-> "Number", neg |-> neg, mant |-> 0, exp |-> 0,
                  inf |-> TRUE, nan |-> FALSE]
Finite(neg, mant, exp) == [type |-> "Number", neg |-> neg, mant |-> mant,
                           exp |-> exp, inf |-> FALSE, nan |-> FALSE]

\* The first eight significant digits of mant.
Lead8(mant) ==
  LET d == NumDigits(mant)
  IN  IF d <= 8 THEN mant * Pow10(8 - d) ELSE mant \div Pow10(d - 8)

\* Rounding of a decimal to a double: beyond the largest double
\* (1.7976931348623157e308) the result is Infinity, at or below half the
\* smallest one (2.4703282292062327e-324) it is zero.
RoundToDouble(neg, mant, exp) ==
  LET n == StripZeros(mant, exp)
      top == n.exp + NumDigits(n.mant) - 1
  IN  IF n.mant = 0 THEN Finite(neg, 0, 0)
      ELSE IF top > 308 \/ (top = 308 /\ Lead8(n.mant) >= 17976932)
        THEN Infinity(neg)
      ELSE IF top < -324 \/ (top = -324 /\ Lead8(n.mant) <= 24703282)
        THEN Finite(neg, 0, 0)
      ELSE Finite(neg, n.mant, n.exp)

RadixChars ==
  <<"0","1","2","3","4","5","6","7","8","9","a","b","c","d","e","f">>
IsRadixDigit(c, base) == \E i \in 1..base : RadixChars[i] = LowerChar(c)
RadixDigit(c) == (CHOOSE i \in 1..16 : RadixChars[i] = LowerChar(c)) - 1

RECURSIVE RadixValue(_, _, _, _)
RadixValue(cs, i, j, base) ==
  IF j < i THEN 0
  ELSE RadixValue(cs, i, j - 1, base) * base + RadixDigit(cs[j])

\* The last index of the run of decimal digits of cs that starts at i
\* (i - 1 when cs[i] is no digit).
DigitsEnd(cs, i) ==
  LET stops == {j \in i..Len(cs) : cs[j] \notin Digits}
  IN  IF stops = {} THEN Len(cs) ELSE Min(stops) - 1

\* StrUnsignedDecimalLiteral at cs[i..]: digits, an optional fraction, an
\* optional exponent, and nothing after them.
DecimalLiteral(cs, i, neg) ==
  LET a == DigitsEnd(cs, i)
      hasDot == a + 1 <= Len(cs) /\ cs[a + 1] = "."
      b == IF hasDot THEN DigitsEnd(cs, a + 2) ELSE a
      nInt == a - i + 1
      nFrac == IF hasDot THEN b - (a + 1) ELSE 0
      after == b + 1
      hasExp == after <= Len(cs) /\ cs[after] \in {"e", "E"}
      signed == after + 1 <= Len(cs) /\ cs[after + 1] \in {"+", "-"}
      e0 == IF signed THEN after + 2 ELSE after + 1
      e1 == DigitsEnd(cs, e0)
      expNeg == signed /\ cs[after + 1] = "-"
      expVal == IF hasExp THEN RadixValue(cs, e0, e1, 10) ELSE 0
      mant == RadixValue(cs, i, a, 10) * Pow10(nFrac)
              + (IF hasDot THEN RadixValue(cs, a + 2, b, 10) ELSE 0)
  IN  IF nInt + nFrac = 0 THEN NaN
      ELSE IF hasExp /\ (e1 < e0 \/ e1 # Len(cs)) THEN NaN
      ELSE IF ~hasExp /\ after # Len(cs) + 1 THEN NaN
      ELSE RoundToDouble(neg, mant,
                         (IF expNeg THEN -expVal ELSE expVal) - nFrac)

InfinityText == <<"I","n","f","i","n","i","t","y">>

\* Number(string): the StringNumericLiteral grammar.
StringToNumber(s) ==
  LET t == trim(s)
      cs == [i \in 1..Len(t) |-> t[i].c]
      signed == cs[1] \in {"+", "-"}
      neg == cs[1] = "-"
      from == IF signed THEN 2 ELSE 1
      base == IF Len(cs) >= 2 /\ cs[1] = "0"
              THEN CASE LowerChar(cs[2]) = "x" -> 16
                     [] LowerChar(cs[2]) = "o" -> 8
                     [] LowerChar(cs[2]) = "b" -> 2
                     [] OTHER -> 10
              ELSE 10
  IN  IF t = <<>> THEN Finite(FALSE, 0, 0)
      ELSE IF ~AllChr(t) THEN NaN
      ELSE IF base # 10
        THEN IF Len(cs) >= 3 /\ \A i \in 3..Len(cs) : IsRadixDigit(cs[i], base)
             THEN RoundToDouble(FALSE, RadixValue(cs, 3, Len(cs), base), 0)
             ELSE NaN
      ELSE IF SubSeq(cs, from, Len(cs)) = InfinityText THEN Infinity(neg)
      ELSE DecimalLiteral(cs, from, neg)

RECURSIVE DigitString(_)
DigitString(m) ==
  IF m < 10 THEN <<DigitChars[m + 1]>>
  ELSE Append(DigitString(m \div 10), DigitChars[(m % 10) + 1])

Zeros(n) == [i \in 1..n |-> "0"]

\* Number::toString(x) in radix 10, with k digits and decimal point after
\* the n-th digit.
NumberToString(x) ==
  LET ds == DigitString(x.mant)
      k == Len(ds)
      n == x.exp + k
      e == n - 1
      body ==
        IF k <= n /\ n <= 21 THEN ds \o Zeros(n - k)
        ELSE IF 0 < n /\ n <= 21
          THEN SubSeq(ds, 1, n) \o <<".">> \o SubSeq(ds, n + 1, k)
        ELSE IF -6 < n /\ n <= 0 THEN <<"0", ".">> \o Zeros(-n) \o ds
        ELSE (IF k = 1 THEN ds
              ELSE <<ds[1], ".">> \o SubSeq(ds, 2, k))
             \o <<"e", IF e < 0 THEN "-" ELSE "+">>
             \o DigitString(IF e < 0 THEN -e ELSE e)
  IN  IF x.nan THEN S(<<"N", "a", "N">>)
      ELSE IF x.inf
        THEN S((IF x.neg THEN <<"-">> ELSE <<>>) \o InfinityText)
      ELSE IF x.mant = 0 THEN S(<<"0">>)
      ELSE S((IF x.neg THEN <<"-">> ELSE <<>>) \o body)

----------------------------------------------------------------------------
(* JSON.parse: a recursive descent over the JSON grammar.  A parse returns  *)
(* [ok, v, i]: whether it succeeded, the value, and the index after it.     *)
(* The escapes \uXXXX are outside the alphabet of the model.                *)

CharAt(s, i) == IF i >= 1 /\ i <= Len(s) /\ IsChr(s[i]) THEN s[i].c ELSE ""
CharsOf(s) == [i \in 1..Len(s) |-> CharAt(s, i)]

SkipWs(s, i) ==
  LET stops == {j \in i..Len(s) : ~IsWs(s[j])}
  IN  IF stops = {} THEN Len(s) + 1 ELSE Min(stops)

JsonFail == [ok |-> FALSE, v |-> Null, i |-> 0]
JsonOk(v, i) == [ok |-> TRUE, v |-> v, i |-> i]

JsonLiteral(s, i, word, v) ==
  IF SubSeq(CharsOf(s), i, i + Len(word) - 1) = word
  THEN JsonOk(v, i + Len(word)) ELSE JsonFail

\* number: -? (0 | [1-9][0-9]*) (. [0-9]+)? ([eE] [+-]? [0-9]+)?
JsonNumber(s, i) ==
  LET cs == CharsOf(s)
      neg == cs[i] = "-"
      d0 == IF neg THEN i + 1 ELSE i
      a == IF CharAt(s, d0) = "0" THEN d0 ELSE DigitsEnd(cs, d0)
      hasDot == CharAt(s, a + 1) = "."
      b == IF hasDot THEN DigitsEnd(cs, a + 2) ELSE a
      nFrac == IF hasDot THEN b - (a + 1) ELSE 0
      hasExp == CharAt(s, b + 1) \in {"e", "E"}
      signed == CharAt(s, b + 2) \in {"+", "-"}
      e0 == IF signed THEN b + 3 ELSE b + 2
      e1 == IF hasExp THEN DigitsEnd(cs, e0) ELSE b
      expVal == IF hasExp THEN RadixValue(cs, e0, e1, 10) ELSE 0
      mant == RadixValue(cs, d0, a, 10) * Pow10(nFrac)
              + (IF hasDot THEN RadixValue(cs, a + 2, b, 10) ELSE 0)
  IN  IF a < d0 THEN JsonFail
      ELSE IF hasDot /\ nFrac = 0 THEN JsonFail
      ELSE IF hasExp /\ e1 < e0 THEN JsonFail
      ELSE JsonOk(RoundToDouble(neg, mant,
                    (IF signed /\ CharAt(s, b + 2) = "-"
                     THEN -expVal ELSE expVal) - nFrac),
                  e1 + 1)

\* The character a simple escape stands for ("" when c is no escape).
Unescape(c) ==
  CASE c = "\"" -> "\""
    [] c = "\\" -> "\\"
    [] c = "/" -> "/"
    [] c = "n" -> "\n"
    [] c = "t" -> "\t"
    [] c = "r" -> "\r"
    [] c = "f" -> "\f"
    [] c = "b" -> "\\b"
    [] OTHER -> ""

\* The characters of a string after its opening quote.
RECURSIVE JsonChars(_, _, _)
JsonChars(s, i, acc) ==
  IF i > Len(s) THEN JsonFail
  ELSE IF s[i] = Chr("\"") THEN JsonOk(String(acc), i + 1)
  ELSE IF CharAt(s, i) = "\\"
    THEN IF Unescape(CharAt(s, i + 1)) = "" THEN JsonFail
         ELSE JsonChars(s, i + 2,
                        Append(acc, Chr(Unescape(CharAt(s, i + 1)))))
  ELSE IF CharAt(s, i) \in {"\t", "\n", "\r", "\f"} THEN JsonFail
  ELSE JsonChars(s, i + 1, Append(acc, s[i]))

RECURSIVE JsonValue(_, _)
RECURSIVE JsonElements(_, _, _)
RECURSIVE JsonMembers(_, _, _)

JsonValue(s, i) ==
  LET c == CharAt(s, i)
      j == SkipWs(s, i + 1)
  IN  CASE c = "{" ->
             IF CharAt(s, j) = "}" THEN JsonOk(Object(EmptyMap), j + 1)
             ELSE JsonMembers(s, j, EmptyMap)
        [] c = "[" ->
             IF CharAt(s, j) = "]" THEN JsonOk(Array(<<>>), j + 1)
             ELSE JsonElements(s, j, <<>>)
        [] c = "\"" -> JsonChars(s, i + 1, <<>>)
        [] c = "t" -> JsonLiteral(s, i, <<"t","r","u","e">>, Boolean(TRUE))
        [] c = "f" ->
             JsonLiteral(s, i, <<"f","a","l","s","e">>, Boolean(FALSE))
        [] c = "n" -> JsonLiteral(s, i, <<"n","u","l","l">>, Null)
        [] c = "-" \/ c \in Digits -> JsonNumber(s, i)
        [] OTHER -> JsonFail

JsonElements(s, i, acc) ==
  LET r == JsonValue(s, i)
      j == SkipWs(s, r.i)
  IN  IF ~r.ok THEN JsonFail
      ELSE IF CharAt(s, j) = ","
        THEN JsonElements(s, SkipWs(s, j + 1), Append(acc, r.v))
      ELSE IF CharAt(s, j) = "]" THEN JsonOk(Array(Append(acc, r.v)), j + 1)
      ELSE JsonFail

JsonMembers(s, i, map) ==
  LET key == JsonChars(s, i + 1, <<>>)
      c == SkipWs(s, key.i)
      r == JsonValue(s, SkipWs(s, c + 1))
      j == SkipWs(s, r.i)
  IN  IF CharAt(s, i) # "\"" \/ ~key.ok THEN JsonFail
      ELSE IF CharAt(s, c) # ":" \/ ~r.ok THEN JsonFail
      ELSE IF CharAt(s, j) = ","
        THEN JsonMembers(s, SkipWs(s, j + 1), Put(map, key.v.s, r.v))
      ELSE IF CharAt(s, j) = "}"
        THEN JsonOk(Object(Put(map, key.v.s, r.v)), j + 1)
      ELSE JsonFail

\* JSON.parse(s): [ok, v]; ok is FALSE where JSON.parse throws SyntaxError.
JsonParse(s) ==
  LET r == JsonValue(s, SkipWs(s, 1))
  IN  IF r.ok /\ SkipWs(s, r.i) = Len(s) + 1
      THEN [ok |-> TRUE, v |-> r.v] ELSE [ok |-> FALSE, v |-> Null]

----------------------------------------------------------------------------
(* ToString and the conversions the parser relies on *)

ToStringKey == S(<<"t","o","S","t","r","i","n","g">>)
ObjectText ==
  S(<<"[","o","b","j","e","c","t"," ","O","b","j","e","c","t","]">>)

\* The abstract operation ToString(v), which RegExp.prototype.test applies to
\* its argument: [ok, s]; ok is FALSE where the conversion throws TypeError.
\* A plain object with an own key toString holds a value that is not
\* callable there, and Object.prototype.valueOf returns no primitive.
RECURSIVE ToPrimitiveString(_)
RECURSIVE Join(_, _)

ToPrimitiveString(v) ==
  CASE v.type = "String" -> [ok |-> TRUE, s |-> v.s]
    [] v.type = "Boolean" ->
         [ok |-> TRUE, s |-> IF v.b THEN S(<<"t","r","u","e">>)
                                 ELSE S(<<"f","a","l","s","e">>)]
    [] v.type = "Number" -> [ok |-> TRUE, s |-> NumberToString(v)]
    [] v.type = "Null" -> [ok |-> TRUE, s |-> S(<<"n","u","l","l">>)]
    [] v.type = "Undefined" ->
         [ok |-> TRUE, s |-> S(<<"u","n","d","e","f","i","n","e","d">>)]
    [] v.type = "Array" -> Join(v.items, 1)
    [] v.type = "Object" ->
         IF ToStringKey \in DOMAIN v.map THEN [ok |-> FALSE, s |-> <<>>]
         ELSE [ok |-> TRUE, s |-> ObjectText]

\* Array.prototype.join(",") of items[i..]
Join(items, i) ==
  LET x == items[i]
      head == IF x.type \in {"Null", "Undefined"}
              THEN [ok |-> TRUE, s |-> <<>>] ELSE ToPrimitiveString(x)
      rest == Join(items, i + 1)
  IN  IF i > Len(items) THEN [ok |-> TRUE, s |-> <<>>]
      ELSE IF ~head.ok THEN head
      ELSE IF i = Len(items) THEN head
      ELSE IF ~rest.ok THEN rest
      ELSE [ok |-> TRUE, s |-> head.s \o <<Chr(",")>> \o rest.s]

\* !v
Falsy(v) ==
  \/ v.type \in {"Undefined", "Null"}
  \/ v.type = "String" /\ v.s = <<>>
  \/ v.type = "Boolean" /\ ~v.b
  \/ v.type = "Number" /\ (v.nan \/ (~v.inf /\ v.mant = 0))

\* typeof v
typeof(v) ==
  CASE v.type = "String" -> "string"
    [] v.type = "Boolean" -> "boolean"
    [] v.type = "Number" -> "number"
    [] v.type = "Undefined" -> "undefined"
    [] OTHER -> "object"

----------------------------------------------------------------------------
(* Outcomes of a call: a return, or a thrown XmlParseError or TypeError *)

Return(value) == [kind |-> "return", value |-> value]
XmlParseError(message, detail) ==
  [kind |-> "XmlParseError", message |-> message, detail |-> detail]
TypeError == [kind |-> "TypeError"]

UseMcpTool == S(<<"u","s","e","_","m","c","p","_","t","o","o","l">>)
ServerNameKey == S(<<"s","e","r","v","e","r","_","n","a","m","e">>)
ToolNameKey == S(<<"t","o","o","l","_","n","a","m","e">>)
ArgumentsKey == S(<<"a","r","g","u","m","e","n","t","s">>)

----------------------------------------------------------------------------
(* The regular expressions.  A match is [found, index, end]: the symbols    *)
(* index..end of the string; from is lastIndex + 1.                         *)

NoMatch == [found |-> FALSE, index |-> 0, end |-> 0]

\* The first index q >= p with s[q] = y, or 0.
RECURSIVE IndexOf(_, _, _)
IndexOf(s, p, y) ==
  IF p > Len(s) THEN 0 ELSE IF s[p] = y THEN p ELSE IndexOf(s, p + 1, y)

\* The last index q <= p with s[q] = y, or 0.
RECURSIVE LastIndexOf(_, _, _)
LastIndexOf(s, p, y) ==
  IF p < 1 THEN 0 ELSE IF s[p] = y THEN p ELSE LastIndexOf(s, p - 1, y)

\* Variant: a greedy [\s\S]* stops at the last closing tag of that name.
LastClose(s, p, name) ==
  IF LastIndexOf(s, Len(s), Close(name)) > p
  THEN LastIndexOf(s, Len(s), Close(name)) ELSE 0

\* Where the lazy [\s\S]*? stops: the first closing tag of that name after
\* p, or 0.
FirstClose(s, p, name) == IndexOf(s, p + 1, Close(name))

\* /(<use_mcp_tool>[\s\S]*?<\/use_mcp_tool>)/g
RECURSIVE ExecToolPattern(_, _)
ExecToolPattern(s, from) ==
  IF from > Len(s) THEN NoMatch
  ELSE IF s[from] = Open(UseMcpTool) /\ FirstClose(s, from, UseMcpTool) # 0
    THEN [found |-> TRUE, index |-> from,
          end |-> FirstClose(s, from, UseMcpTool)]
  ELSE ExecToolPattern(s, from + 1)

\* /<([^>]+)>([\s\S]*?)<\/\1>/g
RECURSIVE ExecTagPattern(_, _)
ExecTagPattern(s, from) ==
  IF from > Len(s) THEN NoMatch
  ELSE IF s[from].k = "o" /\ FirstClose(s, from, s[from].tag) # 0
    THEN [found |-> TRUE, index |-> from,
          end |-> FirstClose(s, from, s[from].tag)]
  ELSE ExecTagPattern(s, from + 1)

\* /^[a-z][a-z0-9-]*$/ and /^[a-z][a-z0-9_]*$/, with extra "-" or "_"
TestNamePattern(s, extra) ==
  /\ Len(s) >= 1
  /\ AllChr(s)
  /\ s[1].c \in LowerLetters
  /\ \A i \in 2..Len(s) : s[i].c \in LowerLetters \cup Digits \cup {extra}

----------------------------------------------------------------------------
(* XmlParser *)

normalizeValue(value) ==
  LET trimmed == trim(value)
      number == StringToNumber(trimmed)
      json == JsonParse(trimmed)
  IN  IF trimmed = <<>> THEN String(<<>>)
      ELSE IF toLowerCase(trimmed) = S(<<"t","r","u","e">>) THEN Boolean(TRUE)
      ELSE IF toLowerCase(trimmed) = S(<<"f","a","l","s","e">>)
        THEN Boolean(FALSE)
      ELSE IF ~number.nan THEN number
      ELSE IF /\ \/ startsWith(trimmed, "{") /\ endsWith(trimmed, "}")
                 \/ startsWith(trimmed, "[") /\ endsWith(trimmed, "]")
              /\ json.ok
        THEN json.v
      ELSE String(trimmed)

hasNestedTags(content) == ExecTagPattern(trim(content), 1).found

\* Variant: an assignment that keeps the value a name already has.
SetParameterOnce(parameters, paramName, value) ==
  IF paramName \in DOMAIN parameters THEN parameters
  ELSE Put(parameters, paramName, value)

\* parameters[paramName] = value
SetParameter(parameters, paramName, value) == Put(parameters, paramName, value)

RECURSIVE parseParameters(_)
RECURSIVE ParseParametersLoop(_, _, _)

\* The loop of parseParameters from lastIndex = from - 1.  The recursive
\* call throws nothing, so its catch clause is never entered.
ParseParametersLoop(content, from, parameters) ==
  LET tagMatch == ExecTagPattern(content, from)
      paramName == content[tagMatch.index].tag
      paramValue == SubSeq(content, tagMatch.index + 1, tagMatch.end - 1)
      value == IF hasNestedTags(paramValue)
               THEN Object(parseParameters(paramValue))
               ELSE normalizeValue(paramValue)
  IN  IF ~tagMatch.found THEN parameters
      ELSE ParseParametersLoop(content, tagMatch.end + 1,
                               SetParameter(parameters, paramName, value))

parseParameters(content) == ParseParametersLoop(content, 1, EmptyMap)

isValidToolName(name) == TestNamePattern(name, "_")

validateToolRequest(request) ==
  LET serverName == ToPrimitiveString(request.serverName)
      toolName == ToPrimitiveString(request.toolName)
  IN  IF Falsy(request.toolName)
        THEN XmlParseError("Missing tool name", <<>>)
      ELSE IF Falsy(request.serverName)
        THEN XmlParseError("Missing server_name in tool request", <<>>)
      ELSE IF Falsy(request.arguments) \/ typeof(request.arguments) # "object"
        THEN XmlParseError("Invalid or missing arguments in tool request",
                           <<>>)
      ELSE IF ~serverName.ok THEN TypeError
      ELSE IF ~TestNamePattern(serverName.s, "-")
        THEN XmlParseError("Invalid server name format: ", serverName.s)
      ELSE IF ~toolName.ok THEN TypeError
      ELSE IF ~isValidToolName(toolName.s)
        THEN XmlParseError("Invalid tool name format: ", toolName.s)
      ELSE Return(Undefined)

\* Variant: arguments taken as the tree parser produced them.
ResolveArgumentsUnparsed(arguments) == Return(arguments)

\* "Parse arguments as JSON if it's a string": the value of toolArguments,
\* or the XmlParseError thrown for it.
ResolveArguments(arguments) ==
  IF typeof(arguments) = "string"
  THEN IF JsonParse(arguments.s).ok THEN Return(JsonParse(arguments.s).v)
       ELSE XmlParseError("Invalid JSON in tool arguments", <<>>)
  ELSE Return(arguments)

\* The request assembled from params and toolArguments, validated.
BuildRequest(block, params, toolArguments) ==
  LET request == [toolName |-> Get(params, ToolNameKey),
                  serverName |-> Get(params, ServerNameKey),
                  arguments |-> toolArguments,
                  raw |-> block]
      valid == validateToolRequest(request)
  IN  IF valid.kind # "return" THEN valid ELSE Return(request)

parseToolRequest(block) ==
  LET toolMatch == ExecToolPattern(block, 1)
      content == SubSeq(block, toolMatch.index + 1, toolMatch.end - 1)
      params == Object(parseParameters(content))
      resolved == ResolveArguments(Get(params, ArgumentsKey))
  IN  IF ~toolMatch.found
        THEN XmlParseError("Invalid tool request format", <<>>)
      ELSE IF Falsy(Get(params, ServerNameKey))
        THEN XmlParseError("Missing server_name in tool request", <<>>)
      ELSE IF Falsy(Get(params, ToolNameKey))
        THEN XmlParseError("Missing tool_name in tool request", <<>>)
      ELSE IF Falsy(Get(params, ArgumentsKey))
        THEN XmlParseError("Missing arguments in tool request", <<>>)
      ELSE IF resolved.kind # "return" THEN resolved
      ELSE BuildRequest(block, params, resolved.value)

----------------------------------------------------------------------------
(* Inputs *)

MaxSegments == 3
MaxLen == 3
MaxSymbols == 4

Element(name, content) == <<Open(name)>> \o content \o <<Close(name)>>

\* A tool-call block with the given contents of its three fields; a field
\* whose content is the string Absent is left out of the block.
Absent == <<Chr("absent")>>
Field(name, content) == IF content = Absent THEN <<>> ELSE Element(name, content)
Block(serverName, toolName, arguments) ==
  Element(UseMcpTool, Field(ServerNameKey, serverName)
                      \o Field(ToolNameKey, toolName)
                      \o Field(ArgumentsKey, arguments))

TextA1 == S(<<"{","\"","a","\"",":","1","}">>)
TextToStringObject ==
  S(<<"{","\"","t","o","S","t","r","i","n","g","\"",":","1","}">>)
TextArrayAb == S(<<"[","\"","a","b","\"","]">>)
TextQuoted == S(<<"\"","a","b","\"">>)
TagA == S(<<"a">>)
TagB == S(<<"b">>)

NameContents ==
  { S(<<"s","r","v">>), S(<<"m","y","-","s","1">>), S(<<"a","_","b">>),
    S(<<"S","e","r","v","e","r","1">>), <<>>, S(<<" ">>),
    S(<<"t","r","u","e">>), S(<<"F","a","l","s","e">>), S(<<"0">>),
    S(<<"4","2">>), TextArrayAb, TextToStringObject, TextA1,
    Element(TagA, S(<<"x">>)), Absent }

ArgumentContents ==
  { TextA1, S(<<"{","}">>), S(<<"[","1",",","2","]">>), TextQuoted,
    S(<<"n","u","l","l">>), S(<<"{","b","a","d","}">>),
    S(<<"h","e","l","l","o">>), <<>>, S(<<"0">>), S(<<"5">>),
    S(<<"f","a","l","s","e">>), S(<<"t","r","u","e">>),
    Element(TagA, S(<<"1">>)), Element(TagA, S(<<"1">>)) \o S(<<"x">>),
    Absent }

BlockInputs ==
  {Block(sn, tn, ar) : sn \in NameContents, tn \in NameContents,
                       ar \in ArgumentContents}

\* The segments a text is assembled from: prose, blocks that build, a block
\* without tool_name, a block whose server_name is an object with a key
\* toString, and stray opening and closing markers.
Segments ==
  { S(<<"h","i">>),
    Block(S(<<"s","r","v">>), S(<<"r","u","n">>), TextA1),
    Block(S(<<"m","y","-","s","1">>), S(<<"a","_","b">>),
          Element(TagA, S(<<"1">>))),
    Block(S(<<"s","r","v">>), Absent, TextA1),
    Block(TextToStringObject, S(<<"r","u","n">>), TextA1),
    <<Open(UseMcpTool)>>,
    <<Close(UseMcpTool)>> }

RECURSIVE Concat(_)
Concat(seqs) == IF seqs = <<>> THEN <<>> ELSE Head(seqs) \o Concat(Tail(seqs))

Strings(alphabet, n) == UNION {[1..k -> alphabet] : k \in 0..n}

TextInputs == {Concat(segs) : segs \in Strings(Segments, MaxSegments)}

NormalizeAlphabet ==
  {Chr(" "), Chr("0"), Chr("1"), Chr("e"), Chr("-"), Chr("."),
   Chr("["), Chr("]")}

NormalizeSamples ==
  { S(<<" ","4","2"," ">>), S(<<"T","R","U","E">>), S(<<"F","a","l","s","e">>),
    TextA1, S(<<"[","1",",","2",",","3","]">>), S(<<"h","e","l","l","o">>),
    S(<<"{","b","a","d","}">>), S(<<"I","n","f","i","n","i","t","y">>),
    S(<<"-","I","n","f","i","n","i","t","y">>), S(<<"0","x","1","F">>),
    S(<<"1","e","9","9","9">>), S(<<"1","e","-","9","9","9">>),
    S(<<"N","a","N">>), S(<<"+","1",".","5","e","+","2">>),
    S(<<"{","}">>) \o <<Open(TagA)>>, TextQuoted, S(<<"n","u","l","l">>),
    S(<<"t","r","u","e","x">>) }

NormalizeInputs == Strings(NormalizeAlphabet, MaxLen) \cup NormalizeSamples

ContentAlphabet == {Open(TagA), Close(TagA), Open(TagB), Close(TagB), Chr("1")}

\* Contents with a repeated name, at the top and inside a nested element,
\* and with three occurrences of one name.
ContentSamples ==
  { Element(TagA, <<>>) \o Element(TagA, S(<<"1">>)),
    Element(TagA, S(<<"1">>)) \o Element(TagB, <<>>) \o Element(TagA, <<>>),
    Element(TagB, Element(TagA, <<>>) \o Element(TagA, S(<<"1">>))),
    Element(TagA, S(<<"1">>)) \o Element(TagB, S(<<"x">>))
      \o Element(TagA, S(<<"t","r","u","e">>)) \o Element(TagA, TextA1),
    Element(TagA, Element(TagB, S(<<"1">>)) \o Element(TagB, S(<<"2">>)))
      \o Element(TagA, Element(TagB, S(<<"3">>))) }

ContentInputs == Strings(ContentAlphabet, MaxSymbols) \cup ContentSamples

NameValues ==
  { String(S(<<"s","r","v">>)), String(S(<<"m","y","-","s","1">>)),
    String(S(<<"a","_","b">>)), String(S(<<"S","e","r","v","e","r","1">>)),
    String(<<>>), Boolean(TRUE), Finite(FALSE, 0, 0),
    JsonParse(TextArrayAb).v, JsonParse(TextToStringObject).v, Undefined }

ArgumentValues ==
  { JsonParse(TextA1).v, Object(EmptyMap), JsonParse(S(<<"[","1","]">>)).v,
    String(S(<<"a","b">>)), String(<<>>), Null, Undefined,
    Finite(FALSE, 5, 0), Boolean(TRUE) }

CandidateInputs ==
  {[toolName |-> tn, serverName |-> sn, arguments |-> ar, raw |-> <<>>] :
     tn \in NameValues, sn \in NameValues, ar \in ArgumentValues}

----------------------------------------------------------------------------
(* The state machine.  pc is "idle" before a call, "loop" at the body of   *)
(* the while loop of parseToolRequests, "returned" or "thrown" after it,   *)
(* and "called" after a call of one of the other methods, which call       *)
(* records.  match is the result of the last pattern.exec(text), pos is    *)
(* lastIndex + 1 after it, and blocks records the matches whose body has   *)
(* run, [index, end], in order.                                            *)

NoCall == [op |-> "none"]
NoError == [kind |-> "none"]

Init ==
  /\ pc = "idle"
  /\ text = <<>>
  /\ pos = 1
  /\ match = NoMatch
  /\ requests = <<>>
  /\ warnings = <<>>
  /\ blocks = <<>>
  /\ thrown = NoError
  /\ call = NoCall

\* The loop condition, (match = pattern.exec(text)) !== null, evaluated
\* with lastIndex = from - 1: a failed exec resets lastIndex to 0.
Exec(t, from) ==
  /\ match' = ExecToolPattern(t, from)
  /\ pos' = IF match'.found THEN match'.end + 1 ELSE 1

\* parseToolRequests(text) is called: requests = [], and the first
\* evaluation of the loop condition
Start(t) ==
  /\ pc = "idle"
  /\ text' = t
  /\ pc' = "loop"
  /\ Exec(t, 1)
  /\ requests' = <<>>
  /\ warnings' = <<>>
  /\ blocks' = <<>>
  /\ UNCHANGED <<thrown, call>>

\* The blocks the loop matches in a text from lastIndex = from - 1, and in
\* the input texts.
RECURSIVE MatchesOf(_, _)
MatchesOf(t, from) ==
  LET m == ExecToolPattern(t, from)
  IN  IF ~m.found THEN {}
      ELSE {SubSeq(t, m.index, m.end)} \cup MatchesOf(t, m.end + 1)

MatchedBlocks == UNION {MatchesOf(t, 1) : t \in TextInputs}

\* const fullMatch = match[0]
FullMatch == SubSeq(text, match.index, match.end)

\* The actions of the loop body take the matched block, fullMatch, and the
\* outcome of this.parseToolRequest(fullMatch).
InBody(fullMatch) ==
  /\ pc = "loop"
  /\ match.found
  /\ Len(fullMatch) = match.end - match.index + 1
  /\ fullMatch = FullMatch
  /\ blocks' = Append(blocks, [index |-> match.index, end |-> match.end])

\* the block builds: requests.push(request), and the next loop condition
Push(fullMatch, outcome) ==
  /\ InBody(fullMatch)
  /\ outcome.kind = "return"
  /\ requests' = Append(requests, outcome.value)
  /\ Exec(text, pos)
  /\ UNCHANGED <<pc, text, warnings, thrown, call>>

\* Variant: the block is skipped without logger.warn.
SkipUnlogged(fullMatch, outcome) ==
  /\ InBody(fullMatch)
  /\ outcome.kind = "XmlParseError"
  /\ Exec(text, pos)
  /\ UNCHANGED <<pc, text, requests, warnings, thrown, call>>

\* the build throws an XmlParseError: logger.warn, and the next loop
\* condition
Skip(fullMatch, outcome) ==
  /\ InBody(fullMatch)
  /\ outcome.kind = "XmlParseError"
  /\ warnings' = Append(warnings, outcome)
  /\ Exec(text, pos)
  /\ UNCHANGED <<pc, text, requests, thrown, call>>

\* Variant: a catch clause that logs every error and goes on.
RethrowSwallowed(fullMatch, outcome) ==
  /\ InBody(fullMatch)
  /\ outcome.kind \notin {"return", "XmlParseError"}
  /\ warnings' = Append(warnings, outcome)
  /\ Exec(text, pos)
  /\ UNCHANGED <<pc, text, requests, thrown, call>>

\* the build throws anything else: throw error
Rethrow(fullMatch, outcome) ==
  /\ InBody(fullMatch)
  /\ outcome.kind \notin {"return", "XmlParseError"}
  /\ thrown' = outcome
  /\ pc' = "thrown"
  /\ UNCHANGED <<text, pos, match, requests, warnings, call>>

\* no further match: return requests
ReturnRequests ==
  /\ pc = "loop"
  /\ ~match.found
  /\ pc' = "returned"
  /\ UNCHANGED <<text, pos, match, requests, warnings, blocks, thrown, call>>

\* A call of one of the other methods, with the value it returns or the
\* error it throws.
CallNormalizeValue(value, result) ==
  /\ pc = "idle"
  /\ pc' = "called"
  /\ call' = [op |-> "normalizeValue", arg |-> value, result |-> result]
  /\ UNCHANGED <<text, pos, match, requests, warnings, blocks, thrown>>

CallParseParameters(content, result) ==
  /\ pc = "idle"
  /\ pc' = "called"
  /\ call' = [op |-> "parseParameters", arg |-> content, result |-> result]
  /\ UNCHANGED <<text, pos, match, requests, warnings, blocks, thrown>>

CallParseToolRequest(block, result) ==
  /\ pc = "idle"
  /\ pc' = "called"
  /\ call' = [op |-> "parseToolRequest", arg |-> block, result |-> result]
  /\ UNCHANGED <<text, pos, match, requests, warnings, blocks, thrown>>

CallValidateToolRequest(request, result) ==
  /\ pc = "idle"
  /\ pc' = "called"
  /\ call' = [op |-> "validateToolRequest", arg |-> request,
              result |-> result]
  /\ UNCHANGED <<text, pos, match, requests, warnings, blocks, thrown>>

Next ==
  \/ \E t \in TextInputs : Start(t)
  \/ \E block \in MatchedBlocks : Push(block, parseToolRequest(block))
  \/ \E block \in MatchedBlocks : Skip(block, parseToolRequest(block))
  \/ \E block \in MatchedBlocks : Rethrow(block, parseToolRequest(block))
  \/ ReturnRequests
  \/ \E value \in NormalizeInputs :
       CallNormalizeValue(value, normalizeValue(value))
  \/ \E content \in ContentInputs :
       CallParseParameters(content, Object(parseParameters(content)))
  \/ \E block \in BlockInputs :
       CallParseToolRequest(block, parseToolRequest(block))
  \/ \E request \in CandidateInputs :
       CallValidateToolRequest(request, validateToolRequest(request))

Spec == Init /\ [][Next]_vars

----------------------------------------------------------------------------
(* Vocabulary of the properties *)

\* The i-th block handed to parseToolRequest, and the outcome of building it
BlockAt(i) == SubSeq(text, blocks[i].index, blocks[i].end)
BlockTexts == [i \in 1..Len(blocks) |-> BlockAt(i)]
Outcomes == [i \in 1..Len(blocks) |-> parseToolRequest(BlockAt(i))]

IsReturn(outcome) == outcome.kind = "return"
IsParseFailure(outcome) == outcome.kind = "XmlParseError"
IsUnexpected(outcome) == ~IsReturn(outcome) /\ ~IsParseFailure(outcome)
Builds(block) == IsReturn(parseToolRequest(block))
ValuesOf(outcomes) == [i \in 1..Len(outcomes) |-> outcomes[i].value]
RawsOf(reqs) == [i \in 1..Len(reqs) |-> reqs[i].raw]

InExtract == pc \in {"loop", "returned", "thrown"}
LastEnd == IF blocks = <<>> THEN 0 ELSE blocks[Len(blocks)].end

\* The reason code of a ParseFailure, from its message
ReasonOf(outcome) ==
  IF IsReturn(outcome) THEN <<"ok">>
  ELSE IF ~IsParseFailure(outcome) THEN <<"unexpected">>
  ELSE CASE outcome.message = "Missing tool name"
              -> <<"missing-field", "tool_name">>
         [] outcome.message = "Missing tool_name in tool request"
              -> <<"missing-field", "tool_name">>
         [] outcome.message = "Missing server_name in tool request"
              -> <<"missing-field", "server_name">>
         [] outcome.message = "Missing arguments in tool request"
              -> <<"missing-field", "arguments">>
         [] outcome.message = "Invalid JSON in tool arguments"
              -> <<"malformed-json", "arguments">>
         [] outcome.message = "Invalid or missing arguments in tool request"
              -> <<"invalid-structure", "arguments">>
         [] outcome.message = "Invalid server name format: "
              -> <<"invalid-format", "server_name">>
         [] outcome.message = "Invalid tool name format: "
              -> <<"invalid-format", "tool_name">>
         [] OTHER -> <<"invalid-format", "block">>

\* The tree parsed from the body of a block of BlockInputs
TreeOf(block) == Object(parseParameters(SubSeq(block, 2, Len(block) - 1)))

IsMapping(v) == v.type = "Object"
IsText(v) == v.type = "String"
NonEmptyText(v) == IsText(v) /\ v.s # <<>>
MatchesName(v, extra) == IsText(v) /\ TestNamePattern(v.s, extra)

----------------------------------------------------------------------------
(* parseToolRequests *)

\* C1: while no unexpected error has occurred, every matched block has had
\* exactly one outcome: the requests are the requests of the blocks that
\* built, in document order, the warnings are the ParseFailures of the
\* blocks that did not, one each, so requests + warnings = matched blocks;
\* no ParseFailure is ever thrown by the extraction, and it returns only
\* when no block is left.
C1_FailureIsolation ==
  /\ thrown.kind # "XmlParseError"
  /\ pc \in {"loop", "returned"} =>
       /\ requests = ValuesOf(SelectSeq(Outcomes, IsReturn))
       /\ warnings = SelectSeq(Outcomes, IsParseFailure)
       /\ Len(requests) + Len(warnings) = Len(blocks)
  /\ pc = "returned" => ~ExecToolPattern(text, LastEnd + 1).found

\* Three blocks, the second malformed: two requests and one warning
C1_Witness ==
  /\ pc = "returned"
  /\ Len(blocks) = 3
  /\ IsParseFailure(Outcomes[2])
  /\ Len(requests) = 2
  /\ Len(warnings) = 1

\* C2: a block whose build raises an error other than an XmlParseError is
\* the last block built; the extraction has thrown that very error, has not
\* logged it, and has not returned.
C2_UnexpectedErrorPropagates ==
  /\ InExtract =>
       \A i \in 1..Len(blocks) :
         IsUnexpected(Outcomes[i]) =>
           /\ pc = "thrown"
           /\ i = Len(blocks)
           /\ thrown = Outcomes[i]
           /\ Len(requests) + Len(warnings) = Len(blocks) - 1
           /\ \A j \in 1..Len(warnings) : warnings[j] # Outcomes[i]
  /\ pc = "thrown" => Len(blocks) >= 1 /\ IsUnexpected(Outcomes[Len(blocks)])
  /\ pc # "thrown" => thrown = NoError

\* A TypeError thrown after a request was built and before a later block
C2_Witness ==
  /\ pc = "thrown"
  /\ thrown = TypeError
  /\ Len(requests) >= 1
  /\ ExecToolPattern(text, LastEnd + 1).found

\* C10: the blocks are taken in document order and do not overlap; each
\* begins at an opening marker, ends at the first closing marker after it
\* and so holds one closing marker; no opening marker that has a closing
\* marker after it is passed over, an opening marker without one yields no
\* block; there are finitely many blocks, and the raw text of each request
\* is its block.
C10_FirstClosingMarkerWins ==
  InExtract =>
    /\ \A i \in 1..Len(blocks) :
         LET b == blocks[i]
             before == IF i = 1 THEN 0 ELSE blocks[i - 1].end
         IN  /\ before < b.index
             /\ b.index < b.end
             /\ text[b.index] = Open(UseMcpTool)
             /\ text[b.end] = Close(UseMcpTool)
             /\ \A q \in b.index + 1..b.end - 1 : text[q] # Close(UseMcpTool)
             /\ \A q \in before + 1..b.index - 1 : text[q] # Open(UseMcpTool)
    /\ pc = "returned" =>
         \A q \in LastEnd + 1..Len(text) :
           text[q] = Open(UseMcpTool) =>
             \A r \in q + 1..Len(text) : text[r] # Close(UseMcpTool)
    /\ 2 * Len(blocks) <= Len(text)
    /\ RawsOf(requests) =
         SelectSeq(SubSeq(BlockTexts, 1, Len(requests) + Len(warnings)),
                   Builds)

\* A block with a second opening marker inside that builds, and an opening
\* marker after it that has no closing marker
C10_Witness ==
  /\ pc = "returned"
  /\ \E i \in 1..Len(blocks) :
       /\ \E q \in blocks[i].index + 1..blocks[i].end - 1 :
            text[q] = Open(UseMcpTool)
       /\ Builds(BlockAt(i))
  /\ \E q \in LastEnd + 1..Len(text) : text[q] = Open(UseMcpTool)

----------------------------------------------------------------------------
(* parseParameters *)

\* The matched sibling pairs of a content, in document order
RECURSIVE SiblingPairs(_, _)
SiblingPairs(content, from) ==
  LET m == ExecTagPattern(content, from)
  IN  IF ~m.found THEN <<>>
      ELSE <<[name |-> content[m.index].tag,
              inner |-> SubSeq(content, m.index + 1, m.end - 1)]>>
           \o SiblingPairs(content, m.end + 1)

\* The value of one pair: a tree if its content has nested tags, else the
\* normalized content
ValueOfPair(pair) ==
  IF hasNestedTags(pair.inner) THEN Object(parseParameters(pair.inner))
  ELSE normalizeValue(pair.inner)

IsLastOfName(pairs, i) ==
  \A j \in i + 1..Len(pairs) : pairs[j].name # pairs[i].name

\* tree has one entry per name of the pairs of content, the value of the
\* last pair of that name, and so has every tree nested in it
RECURSIVE LastOccurrenceWins(_, _)
LastOccurrenceWins(content, tree) ==
  LET pairs == SiblingPairs(content, 1)
  IN  /\ DOMAIN tree = {pairs[i].name : i \in 1..Len(pairs)}
      /\ \A i \in 1..Len(pairs) :
           IsLastOfName(pairs, i) =>
             /\ tree[pairs[i].name] = ValueOfPair(pairs[i])
             /\ hasNestedTags(pairs[i].inner) =>
                  LastOccurrenceWins(pairs[i].inner, tree[pairs[i].name].map)

\* C7: in the tree parseParameters returns, at every nesting level, each
\* name of a matched sibling pair has exactly one entry, and it holds the
\* value of the last pair of that name alone.
C7_LastOccurrenceWins ==
  call.op = "parseParameters" =>
    LastOccurrenceWins(call.arg, call.result.map)

\* Some pair has a later sibling of its name with a different value, at the
\* top level or inside a nested element
HasRepeatedName(content) ==
  LET pairs == SiblingPairs(content, 1)
  IN  \E i \in 1..Len(pairs) :
        /\ ~IsLastOfName(pairs, i)
        /\ \A j \in i + 1..Len(pairs) :
             pairs[j].name = pairs[i].name =>
               ValueOfPair(pairs[j]) # ValueOfPair(pairs[i])

C7_Witness ==
  /\ call.op = "parseParameters"
  /\ LET pairs == SiblingPairs(call.arg, 1)
     IN  /\ Len(pairs) = 1
         /\ hasNestedTags(pairs[1].inner)
         /\ HasRepeatedName(pairs[1].inner)

----------------------------------------------------------------------------
(* parseToolRequest *)

\* The block has its three keys with values that pass the presence checks,
\* so that the arguments are resolved
ResolvesArguments(block) ==
  /\ ~Falsy(Get(TreeOf(block), ServerNameKey))
  /\ ~Falsy(Get(TreeOf(block), ToolNameKey))
  /\ ~Falsy(Get(TreeOf(block), ArgumentsKey))

\* C9 as stated: a Text arguments value either yields a mapping, used as
\* the arguments, or fails the build with malformed-json(arguments); any
\* other arguments value is used unchanged.
C9_TextYieldsMappingOrMalformedJson ==
  call.op = "parseToolRequest" /\ ResolvesArguments(call.arg) =>
    LET arguments == Get(TreeOf(call.arg), ArgumentsKey)
        json == JsonParse(arguments.s)
    IN  IF IsText(arguments)
        THEN IF json.ok /\ IsMapping(json.v)
             THEN /\ ReasonOf(call.result) # <<"malformed-json", "arguments">>
                  /\ IsReturn(call.result) =>
                       call.result.value.arguments = json.v
             ELSE ReasonOf(call.result) = <<"malformed-json", "arguments">>
        ELSE /\ ReasonOf(call.result) # <<"malformed-json", "arguments">>
             /\ IsReturn(call.result) =>
                  call.result.value.arguments = arguments

\* C9: a Text arguments value is JSON-parsed; if the parse fails the build
\* fails with malformed-json(arguments); if it succeeds the result is a
\* JSON string or null, never a mapping, and the build fails with
\* invalid-structure(arguments); any other arguments value is used
\* unchanged and never reported as malformed JSON.
C9_TextArguments ==
  call.op = "parseToolRequest" /\ ResolvesArguments(call.arg) =>
    LET arguments == Get(TreeOf(call.arg), ArgumentsKey)
        json == JsonParse(arguments.s)
    IN  IF IsText(arguments)
        THEN IF json.ok
             THEN /\ json.v.type \in {"String", "Null"}
                  /\ ReasonOf(call.result) =
                       <<"invalid-structure", "arguments">>
             ELSE ReasonOf(call.result) = <<"malformed-json", "arguments">>
        ELSE /\ ReasonOf(call.result) # <<"malformed-json", "arguments">>
             /\ IsReturn(call.result) =>
                  call.result.value.arguments = arguments

\* A Text arguments value that is valid JSON
C9_Witness ==
  /\ call.op = "parseToolRequest"
  /\ ResolvesArguments(call.arg)
  /\ IsText(Get(TreeOf(call.arg), ArgumentsKey))
  /\ JsonParse(Get(TreeOf(call.arg), ArgumentsKey).s).ok
  /\ ReasonOf(call.result) = <<"invalid-structure", "arguments">>

\* The requests handed to a caller: the one a call of parseToolRequest
\* returned, and those parseToolRequests collected
Returned ==
  (IF call.op = "parseToolRequest" /\ IsReturn(call.result)
   THEN {call.result.value} ELSE {})
  \cup {requests[i] : i \in 1..Len(requests)}

\* C3: every returned request has a toolName that is a string matching
\* ^[a-z][a-z0-9_]*$ and a serverName that is a string matching
\* ^[a-z][a-z0-9-]*$.
C3_NamesAreMatchingStrings ==
  \A request \in Returned :
    /\ MatchesName(request.toolName, "_")
    /\ MatchesName(request.serverName, "-")

\* C4: every returned request has arguments that are a mapping from string
\* keys to values, never a scalar and never an array.
C4_ArgumentsAreAMapping ==
  \A request \in Returned : IsMapping(request.arguments)

\* The first of server_name, tool_name, arguments that is not a key of the
\* tree, or <<>> if all three are
FirstAbsentKey(tree) ==
  IF ServerNameKey \notin DOMAIN tree.map THEN <<"server_name">>
  ELSE IF ToolNameKey \notin DOMAIN tree.map THEN <<"tool_name">>
  ELSE IF ArgumentsKey \notin DOMAIN tree.map THEN <<"arguments">>
  ELSE <<>>

\* C8: the build fails with missing-field(k) exactly when k is the first of
\* server_name, tool_name, arguments that is not a key of the tree parsed
\* from the block; a block with all three keys is never rejected with
\* missing-field.
C8_MissingFieldIffKeyAbsent ==
  call.op = "parseToolRequest" =>
    LET absent == FirstAbsentKey(TreeOf(call.arg))
    IN  IF absent = <<>> THEN ReasonOf(call.result)[1] # "missing-field"
        ELSE ReasonOf(call.result) = <<"missing-field">> \o absent

----------------------------------------------------------------------------
(* validateToolRequest *)

\* The reason of the first of the five checks that does not hold
FirstFailedCheck(request) ==
  IF ~NonEmptyText(request.toolName) THEN <<"missing-field", "tool_name">>
  ELSE IF ~NonEmptyText(request.serverName)
    THEN <<"missing-field", "server_name">>
  ELSE IF ~IsMapping(request.arguments)
    THEN <<"invalid-structure", "arguments">>
  ELSE IF ~MatchesName(request.serverName, "-")
    THEN <<"invalid-format", "server_name">>
  ELSE IF ~MatchesName(request.toolName, "_")
    THEN <<"invalid-format", "tool_name">>
  ELSE <<"ok">>

\* A candidate whose names are strings, possibly empty, or absent
HasTextNames(request) ==
  /\ request.toolName.type \in {"String", "Undefined"}
  /\ request.serverName.type \in {"String", "Undefined"}

\* C5: for a candidate whose names are strings or absent, whatever its
\* arguments, validateToolRequest fails with the reason of the first, in
\* the fixed order, of its five checks that does not hold, returns exactly
\* when all five hold, and logs nothing.
C5_FirstFailedCheckDecides ==
  call.op = "validateToolRequest" /\ HasTextNames(call.arg) =>
    /\ ReasonOf(call.result) = FirstFailedCheck(call.arg)
    /\ warnings = <<>>

----------------------------------------------------------------------------
(* normalizeValue *)

IsDigitString(cs) == \A i \in 1..Len(cs) : cs[i] \in Digits

\* digits, with an optional point among them
IsMantissa(cs) ==
  \E k \in 0..Len(cs) :
    /\ IsDigitString(SubSeq(cs, 1, k))
    /\ \/ k = Len(cs) /\ k >= 1
       \/ /\ k < Len(cs)
          /\ cs[k + 1] = "."
          /\ IsDigitString(SubSeq(cs, k + 2, Len(cs)))
          /\ Len(cs) >= 2

\* nothing, or e or E, an optional sign, and digits
IsExponent(cs) ==
  \/ cs = <<>>
  \/ /\ Len(cs) >= 2
     /\ cs[1] \in {"e", "E"}
     /\ LET digits == IF cs[2] \in {"+", "-"} THEN SubSeq(cs, 3, Len(cs))
                      ELSE Tail(cs)
        IN  digits # <<>> /\ IsDigitString(digits)

\* A decimal numeric literal: optional sign, mantissa, optional exponent,
\* and nothing else
IsDecimalLiteral(s) ==
  /\ s # <<>>
  /\ AllChr(s)
  /\ LET cs == CharsOf(s)
         unsigned == IF cs[1] \in {"+", "-"} THEN Tail(cs) ELSE cs
     IN  \E k \in 1..Len(unsigned) :
           /\ IsMantissa(SubSeq(unsigned, 1, k))
           /\ IsExponent(SubSeq(unsigned, k + 1, Len(unsigned)))

IsBracketed(s) ==
  \/ startsWith(s, "{") /\ endsWith(s, "}")
  \/ startsWith(s, "[") /\ endsWith(s, "]")

\* C6: normalizeValue returns the result of the first rule that matches the
\* trimmed text: empty; true or false in any case, a Boolean; a decimal
\* numeric literal, a finite Number; bracketed by {} or [] and valid JSON,
\* the parsed value; anything else, the trimmed text.
C6_FirstMatchingRule ==
  call.op = "normalizeValue" =>
    LET trimmed == trim(call.arg)
        result == call.result
    IN  IF trimmed = <<>> THEN result = String(<<>>)
        ELSE IF toLowerCase(trimmed) = S(<<"t","r","u","e">>)
          THEN result = Boolean(TRUE)
        ELSE IF toLowerCase(trimmed) = S(<<"f","a","l","s","e">>)
          THEN result = Boolean(FALSE)
        ELSE IF IsDecimalLiteral(trimmed)
          THEN result.type = "Number" /\ ~result.inf /\ ~result.nan
        ELSE IF IsBracketed(trimmed) /\ JsonParse(trimmed).ok
          THEN result = JsonParse(trimmed).v
        ELSE result = String(trimmed)

====
